---- MODULE Spec2Model ----
(***************************************************************************)
(* Model of the BlobBet server (src/server.js): the room registry, the     *)
(* socket handlers join / input / disconnect and the 12 Hz game loop       *)
(* (integrate, pellets, replenishment, PvP, AOI snapshots).  The file holds *)
(* the server twice (lines 1-200 and 202-379); the game logic of the two   *)
(* copies is the same text, and the model follows the first.               *)
(*                                                                         *)
(* Numbers.  The source computes in IEEE doubles; the model computes in    *)
(* fixed point and rounds toward zero where a double rounds to nearest:    *)
(*   - positions and velocities are whole world units (per second);        *)
(*   - a mass is held in twentieths (MassUnit), which keeps 0.85 * m exact *)
(*     for every mass that START_MASS and pellets produce;                 *)
(*   - a radius r(m) = sqrt(m) is held in twentieths too.                  *)
(* Math.random() is a nondeterministic choice from SpawnPoints resp.       *)
(* PelletPoints, subsets of the integer ranges the source draws from.      *)
(* Fields that no operation reads back (name, mode, roomId, lastInputAt,   *)
(* the pellet id) are left out of the records.                             *)
(*                                                                         *)
(* Specifications:                                                         *)
(*   Spec      the server from its construction, all handlers and the loop *)
(*   LoopSpec  the game loop applied to one room drawn from bounded sets   *)
(*             of players and pellets (the loop body as a function of the  *)
(*             room it finds)                                              *)
(*   MoveSpec  the game loop on a player that has sent an input, near and  *)
(*             far from the world's edges                                  *)
(*   JoinSpec  connect, join, disconnect and the loop on a registry whose  *)
(*             first room other connections have filled                    *)
(*   ModeSpec  the final iteration (room modes, match state machine, AFK   *)
(*             monitor), which is not among the sources and is written     *)
(*             from the specification                                      *)
(***************************************************************************)
EXTENDS Integers, Sequences, FiniteSets, TLC

(* ---- bounds of the model ---- *)
\* connection ids the transport may hand out (socket.id), each used once
NumSockets == 3
\* rooms the registry may hold before a join that needs a new one is cut off
MaxRooms == 2
\* game-loop passes explored
MaxTicks == 2
\* join events accepted from connections that have joined before
MaxRejoins == 1
\* src/server.js:44 sets 24; scaled down so that a room can fill up
ROOM_CAP == 3
\* src/server.js:41 sets 400; scaled down
PELLET_COUNT == 2

(* ---- game config, src/server.js:37-45 ---- *)
W == 3000
H == 3000
TICKS_PER_SECOND == 12
BASE_SPEED == 220
FRICTION_PERCENT == 90
PELLET_VALUE == 5
START_MASS == 120
AOI_RADIUS == 900

\* fixed-point resolution of masses and radii (twentieths)
MassUnit == 100 \div 5

Sockets == 1..NumSockets

\* Math.floor(rand(200, W-200)) at join: a few of the integer points of that range
SpawnPoints ==
    { <<200, 200>> }

\* Math.floor(rand(40, W-40)) for a pellet: a few of the integer points of that range
PelletPoints ==
    { <<190, 200>> }

\* every pellet field (ordered array) that spawnPellets / replenishment can produce
PelletFields ==
    [1..PELLET_COUNT -> PelletPoints]

\* inp.vx / inp.vy as sent by a client: a number, or something Number() maps to NaN
Inputs ==
    { [vx |-> [num |-> TRUE, v |-> -1], vy |-> [num |-> FALSE, v |-> 0]] }

(* ---- arithmetic helpers ---- *)
Min(a, b) == IF a < b THEN a ELSE b
Max(a, b) == IF a > b THEN a ELSE b

\* a / b rounded toward zero
Trunc(a, b) == IF a >= 0 THEN a \div b ELSE -((-a) \div b)

RECURSIVE IsqrtIn(_, _, _)
IsqrtIn(n, lo, hi) ==
    IF lo >= hi THEN lo
    ELSE LET mid == (lo + hi + 1) \div 2
         IN  IF mid * mid <= n THEN IsqrtIn(n, mid, hi) ELSE IsqrtIn(n, lo, mid - 1)

\* floor(sqrt(n)) for 0 <= n < 2^30
Isqrt(n) == IsqrtIn(n, 0, 32767)

\* clamp with the lower bound lost
clampUpperOnly(v, a, b) == Min(b, v)

\* function clamp(v,a,b)
clamp(v, a, b) == Max(a, Min(b, v))

\* function r(m) = Math.sqrt(m), in twentieths for a mass in twentieths
r(m) == Isqrt(MassUnit * m)

\* Number(x)||0
NumberOr0(x) == IF x.num THEN x.v ELSE 0

\* BASE_SPEED / Math.pow(p.mass/100, 0.25), whole units per second
Speed(m) ==
    LET root2 == Isqrt(m * ((1000 * 1000) \div (100 * MassUnit)))
        root4 == Isqrt(1000 * root2)
    IN  (BASE_SPEED * 1000) \div root4

\* dx*dx + dy*dy
Dist2(x1, y1, x2, y2) == (x2 - x1) * (x2 - x1) + (y2 - y1) * (y2 - y1)

\* d2 < (t / unit)^2 for integers d2 >= 0, t, unit > 0
LessThanSquare(d2, t, unit) == d2 < (t * t + unit * unit - 1) \div (unit * unit)

(* ---- a JavaScript Map as the sequence of its entries in insertion order ---- *)
MapHas(m, k) == \E i \in 1..Len(m) : m[i].id = k
MapGet(m, k) == m[CHOOSE i \in 1..Len(m) : m[i].id = k]
\* Map.prototype.set: an existing key keeps its place in the iteration order
MapSet(m, k, v) ==
    IF MapHas(m, k) THEN [i \in 1..Len(m) |-> IF m[i].id = k THEN v ELSE m[i]]
    ELSE Append(m, v)
MapDelete(m, k) == SelectSeq(m, LAMBDA e : e.id # k)
MapKeys(m) == [i \in 1..Len(m) |-> m[i].id]

VARIABLES
    rooms,      \* the rooms Map: rooms[n] is room-n, [players, pellets, ...]
    conn,       \* per connection id: "none" (not yet connected), "open", "closed"
    room,       \* per connection: the handler closure's `room` (0 is null)
    rejoins,    \* join events handled for connections whose `room` was already set
    ticks,      \* game-loop passes so far
    sent,       \* the messages the last handler or loop pass emitted, in order
    trace,      \* per room, what the last loop pass did (history); NoTrace after a handler
    inputBy,    \* the connection whose input handler ran last, 0 after any other event
    now         \* Date.now() in ms; the iterations under src/ store it and never read it

vars == <<rooms, conn, room, rejoins, ticks, sent, trace, inputBy, now>>

NoTrace == <<>>

Init ==
    /\ \E field \in PelletFields : rooms = << [players |-> <<>>, pellets |-> field] >>
    /\ conn = [s \in Sockets |-> "none"]
    /\ room = [s \in Sockets |-> 0]
    /\ rejoins = 0
    /\ ticks = 0
    /\ sent = <<>>
    /\ trace = NoTrace
    /\ inputBy = 0
    /\ now = 0

\* io.on('connection'): a fresh closure with room = null. The ids are opaque, so
\* the k-th connection is given id k
Connect(s) ==
    /\ conn[s] = "none"
    /\ \A t \in 1..(s - 1) : conn[t] # "none"
    /\ conn' = [conn EXCEPT ![s] = "open"]
    /\ room' = [room EXCEPT ![s] = 0]
    /\ sent' = <<>>
    /\ trace' = NoTrace
    /\ inputBy' = 0
    /\ UNCHANGED <<rooms, rejoins, ticks, now>>

\* RoomForJoin with the capacity test off by one (size <= ROOM_CAP)
RoomForJoinInclusive(rs) ==
    IF \E n \in 1..Len(rs) : Len(rs[n].players) <= ROOM_CAP
    THEN CHOOSE n \in 1..Len(rs) :
            /\ Len(rs[n].players) <= ROOM_CAP
            /\ \A k \in 1..(n - 1) : Len(rs[k].players) > ROOM_CAP
    ELSE Len(rs) + 1

\* the index of the room getOrCreateRoomForJoin returns: the first room below
\* ROOM_CAP in the registry's order, else a new room appended to it
RoomForJoin(rs) ==
    IF \E n \in 1..Len(rs) : Len(rs[n].players) < ROOM_CAP
    THEN CHOOSE n \in 1..Len(rs) :
            /\ Len(rs[n].players) < ROOM_CAP
            /\ \A k \in 1..(n - 1) : Len(rs[k].players) >= ROOM_CAP
    ELSE Len(rs) + 1

\* the registry after getOrCreateRoomForJoin
getOrCreateRoomForJoin(rs, field) ==
    IF RoomForJoin(rs) <= Len(rs) THEN rs
    ELSE Append(rs, [players |-> <<>>, pellets |-> field])

\* the player record built by the join handler
NewPlayer(s, pt) ==
    [id |-> s, x |-> pt[1], y |-> pt[2], vx |-> 0, vy |-> 0, mass |-> START_MASS * MassUnit]

\* socket.on('join')
Join(s) ==
    /\ conn[s] = "open"
    /\ RoomForJoin(rooms) <= MaxRooms
    /\ room[s] # 0 => rejoins < MaxRejoins
    /\ rejoins' = IF room[s] # 0 THEN rejoins + 1 ELSE rejoins
    /\ \E pt \in SpawnPoints :
       \E field \in IF RoomForJoin(rooms) <= Len(rooms) THEN {<<>>} ELSE PelletFields :
        LET n  == RoomForJoin(rooms)
            rs == getOrCreateRoomForJoin(rooms, field)
        IN  /\ rooms' = [rs EXCEPT ![n].players = MapSet(@, s, NewPlayer(s, pt))]
            /\ room' = [room EXCEPT ![s] = n]
    /\ sent' = <<>>
    /\ trace' = NoTrace
    /\ inputBy' = 0
    /\ UNCHANGED <<conn, ticks, now>>

\* the player record after the input handler's assignments
ApplyInput(p, inp) ==
    LET vx == NumberOr0(inp.vx)
        vy == NumberOr0(inp.vy)
        speed == Speed(p.mass)
    IN  [p EXCEPT !.vx = vx * speed, !.vy = vy * speed]

\* InputRooms without the `if (!p) return`: a record is made up for a missing player
InputRoomsUpsert(rs, n, s, inp) ==
    IF n = 0 THEN rs
    ELSE [rs EXCEPT ![n].players =
            MapSet(@, s, ApplyInput(IF MapHas(@, s) THEN MapGet(@, s)
                                    ELSE NewPlayer(s, <<200, 200>>), inp))]

\* the rooms after the input handler ran for connection s with closure room n
InputRooms(rs, n, s, inp) ==
    IF n = 0 THEN rs
    ELSE IF ~MapHas(rs[n].players, s) THEN rs
    ELSE [rs EXCEPT ![n].players = MapSet(@, s, ApplyInput(MapGet(@, s), inp))]

\* socket.on('input')
Input(s) ==
    /\ conn[s] = "open"
    /\ \E inp \in Inputs : rooms' = InputRooms(rooms, room[s], s, inp)
    /\ sent' = <<>>
    /\ trace' = NoTrace
    /\ inputBy' = s
    /\ UNCHANGED <<conn, room, rejoins, ticks, now>>

\* socket.on('disconnect')
Disconnect(s) ==
    /\ conn[s] = "open"
    /\ conn' = [conn EXCEPT ![s] = "closed"]
    /\ rooms' =
        IF room[s] # 0 THEN [rooms EXCEPT ![room[s]].players = MapDelete(@, s)]
        ELSE rooms
    /\ sent' = <<>>
    /\ trace' = NoTrace
    /\ inputBy' = 0
    /\ UNCHANGED <<room, rejoins, ticks, now>>

(* ---- the game loop, one room ---- *)

\* integrate: position, friction, clamp
Integrate(p) ==
    LET x1 == p.x + Trunc(p.vx, TICKS_PER_SECOND)
        y1 == p.y + Trunc(p.vy, TICKS_PER_SECOND)
    IN  [p EXCEPT !.x = clamp(x1, 10, W - 10),
                  !.y = clamp(y1, 10, H - 10),
                  !.vx = Trunc(p.vx * FRICTION_PERCENT, 100),
                  !.vy = Trunc(p.vy * FRICTION_PERCENT, 100)]

IntegrateAll(players) == [k \in 1..Len(players) |-> Integrate(players[k])]

\* dx*dx + dy*dy < (rr+6)*(rr+6), rr in twentieths
PelletHit(p, rr, pe) ==
    LessThanSquare(Dist2(p.x, p.y, pe[1], pe[2]), rr + 6 * MassUnit, MassUnit)

\* Splice that removes nothing
SpliceNothing(a, i) == a

\* a[i] removed: Array.prototype.splice(i, 1)
Splice(a, i) == SubSeq(a, 1, i - 1) \o SubSeq(a, i + 1, Len(a))

\* one player's scan of the pellet array, from index i down to the first
RECURSIVE EatFrom(_, _, _, _)
EatFrom(p, rr, pellets, i) ==
    IF i < 1 THEN [p |-> p, pellets |-> pellets]
    ELSE IF PelletHit(p, rr, pellets[i])
         THEN EatFrom([p EXCEPT !.mass = @ + PELLET_VALUE * MassUnit], rr, Splice(pellets, i), i - 1)
         ELSE EatFrom(p, rr, pellets, i - 1)

\* the pellet pass over the players from the k-th on, in the Map's order
RECURSIVE PelletPass(_, _, _)
PelletPass(players, pellets, k) ==
    IF k > Len(players) THEN [players |-> players, pellets |-> pellets]
    ELSE LET e == EatFrom(players[k], r(players[k].mass), pellets, Len(pellets))
         IN  PelletPass([players EXCEPT ![k] = e.p], e.pellets, k + 1)

\* while (room.pellets.length < PELLET_COUNT) push(...): the pushed pellets are refill
Replenish(pellets, refill) == pellets \o refill

\* Refills with the loop bound off by one (length < PELLET_COUNT - 1)
RefillsOneShort(len) ==
    [1..(IF len < PELLET_COUNT - 1 THEN PELLET_COUNT - 1 - len ELSE 0) -> PelletPoints]

\* what the replenishment loop may push onto an array of this length
Refills(len) ==
    [1..(IF len < PELLET_COUNT THEN PELLET_COUNT - len ELSE 0) -> PelletPoints]

\* SameMass with the equal-mass test dropped
SameMassNever(A, B) == FALSE

\* A.mass === B.mass
SameMass(A, B) == A.mass = B.mass

\* small.mass * 0.85
AbsorbedShare(m) == (m * 85) \div 100

\* AbsorbHit with the 0.35 factor forgotten: dist2 < (rb - rs)^2
AbsorbHitNoFactor(big, small) ==
    LET rb == r(big.mass)
        rs == r(small.mass)
    IN  LessThanSquare(Dist2(big.x, big.y, small.x, small.y),
                       100 * rb - 100 * rs, 100 * MassUnit)

\* dist2 < Math.pow(rb - rs*0.35, 2), rb and rs in twentieths
AbsorbHit(big, small) ==
    LET rb == r(big.mass)
        rs == r(small.mass)
    IN  LessThanSquare(Dist2(big.x, big.y, small.x, small.y),
                       100 * rb - 35 * rs, 100 * MassUnit)

\* Absorb with the delete lost and the absorbed mass also left behind as a new entry
AbsorbLeavesRemnant(players, big, small) ==
    LET grown == [big EXCEPT !.mass = @ + AbsorbedShare(small.mass)]
    IN  Append(IF MapHas(players, big.id) THEN MapSet(players, big.id, grown) ELSE players,
               [small EXCEPT !.id = small.id + NumSockets])

\* the players Map after `big.mass += small.mass * 0.85; room.players.delete(sid)`:
\* big is an object, so the Map sees its new mass only while big is still an entry
Absorb(players, big, small) ==
    LET grown == [big EXCEPT !.mass = @ + AbsorbedShare(small.mass)]
    IN  MapDelete(IF MapHas(players, big.id) THEN MapSet(players, big.id, grown)
                  ELSE players,
                  small.id)

\* the inner loop of the PvP pass from index j on. A is the object fetched once by
\* the outer loop: it stays in use after its entry is deleted. st = [players, sent, pvp]
RECURSIVE PvPInner(_, _, _, _)
PvPInner(st, A, ids, j) ==
    IF j > Len(ids) THEN st
    ELSE IF ~MapHas(st.players, ids[j]) THEN PvPInner(st, A, ids, j + 1)
    ELSE
      LET B == MapGet(st.players, ids[j])
          ev == [a |-> A.id, b |-> B.id, aMass |-> A.mass, bMass |-> B.mass,
                 aIn |-> MapHas(st.players, A.id),
                 dist2 |-> Dist2(A.x, A.y, B.x, B.y),
                 before |-> st.players]
      IN
      IF SameMass(A, B)
      THEN PvPInner([st EXCEPT !.pvp = Append(@, ev @@
                                 [hit |-> FALSE, big |-> 0, small |-> 0, bigMass |-> 0,
                                  after |-> st.players])],
                    A, ids, j + 1)
      ELSE
        LET big == IF A.mass > B.mass THEN A ELSE B
            small == IF A.mass > B.mass THEN B ELSE A
        IN
        IF AbsorbHit(big, small)
        THEN LET ps == Absorb(st.players, big, small)
                 grownMass == big.mass + AbsorbedShare(small.mass)
             IN  PvPInner([players |-> ps,
                           sent |-> Append(st.sent, [type |-> "ko", to |-> small.id, by |-> big.id]),
                           pvp |-> Append(st.pvp, ev @@
                                 [hit |-> TRUE, big |-> big.id, small |-> small.id,
                                  bigMass |-> grownMass, after |-> ps])],
                          IF big.id = A.id THEN [A EXCEPT !.mass = grownMass] ELSE A,
                          ids, j + 1)
        ELSE PvPInner([st EXCEPT !.pvp = Append(@, ev @@
                                 [hit |-> FALSE, big |-> big.id, small |-> small.id,
                                  bigMass |-> big.mass, after |-> st.players])],
                      A, ids, j + 1)

\* the outer loop of the PvP pass from index i on
RECURSIVE PvPOuter(_, _, _)
PvPOuter(st, ids, i) ==
    IF i > Len(ids) THEN st
    ELSE IF ~MapHas(st.players, ids[i]) THEN PvPOuter(st, ids, i + 1)
    ELSE PvPOuter(PvPInner(st, MapGet(st.players, ids[i]), ids, i + 1), ids, i + 1)

\* the PvP pass: ids is the key array taken before the loops
PvP(players) ==
    PvPOuter([players |-> players, sent |-> <<>>, pvp |-> <<>>], MapKeys(players), 1)

\* { id, x, y, mass, r } of a snapshot
View(p) == [id |-> p.id, x |-> p.x, y |-> p.y, mass |-> p.mass, r |-> r(p.mass)]

\* InAOI with the boundary left out
InAOIStrict(p, x, y) == Dist2(p.x, p.y, x, y) < AOI_RADIUS * AOI_RADIUS

\* dx*dx + dy*dy <= AOI_RADIUS*AOI_RADIUS
InAOI(p, x, y) == Dist2(p.x, p.y, x, y) <= AOI_RADIUS * AOI_RADIUS

\* nearbyPlayers of recipient p
NearbyPlayers(players, p) ==
    LET near == SelectSeq(players, LAMBDA op : op.id # p.id /\ InAOI(p, op.x, op.y))
    IN  [k \in 1..Len(near) |-> View(near[k])]

\* nearPellets of recipient p: every second pellet inside the AOI
NearPellets(pellets, p) ==
    LET near == SelectSeq(pellets, LAMBDA pe : InAOI(p, pe[1], pe[2]))
    IN  [k \in 1..((Len(near) + 1) \div 2) |-> near[2 * k - 1]]

\* the state messages of room n, one per entry of its players Map
Snapshots(players, pellets, n) ==
    [k \in 1..Len(players) |->
        [type |-> "state", to |-> players[k].id, room |-> n,
         you |-> View(players[k]),
         players |-> NearbyPlayers(players, players[k]),
         pellets |-> NearPellets(pellets, players[k])]]

\* the loop body for a room up to the PvP pass, before the replenishment draws
LoopBody(rm) ==
    LET moved == IntegrateAll(rm.players)
        fed   == PelletPass(moved, rm.pellets, 1)
        pvp   == PvP(fed.players)
    IN  [players |-> pvp.players, pellets |-> fed.pellets, sent |-> pvp.sent,
         trace |-> [start |-> rm.players, fed |-> fed.players,
                    left |-> Len(fed.pellets), pvp |-> pvp.pvp, after |-> pvp.players]]

\* the messages of rooms 1..n, in the order the loop emits them
RECURSIVE SentUpTo(_, _, _)
SentUpTo(body, rs, n) ==
    IF n = 0 THEN <<>>
    ELSE SentUpTo(body, rs, n - 1) \o body[n].sent
            \o Snapshots(rs[n].players, rs[n].pellets, n)

\* setInterval(..., TICK): one pass over all rooms
Tick ==
    /\ ticks < MaxTicks
    /\ LET body == [n \in 1..Len(rooms) |-> LoopBody(rooms[n])]
       IN  \E refill \in [1..Len(rooms) -> UNION {Refills(k) : k \in 0..PELLET_COUNT}] :
            /\ \A n \in 1..Len(rooms) : refill[n] \in Refills(Len(body[n].pellets))
            /\ LET rs == [n \in 1..Len(rooms) |->
                            [players |-> body[n].players,
                             pellets |-> Replenish(body[n].pellets, refill[n])]]
               IN  /\ rooms' = rs
                   /\ sent' = SentUpTo(body, rs, Len(rooms))
                   /\ trace' = [n \in 1..Len(rooms) |-> body[n].trace]
    /\ ticks' = ticks + 1
    /\ inputBy' = 0
    /\ UNCHANGED <<conn, room, rejoins, now>>

Next ==
    \/ \E s \in Sockets : Connect(s)
    \/ \E s \in Sockets : Join(s)
    \/ \E s \in Sockets : Input(s)
    \/ \E s \in Sockets : Disconnect(s)
    \/ Tick

Spec == Init /\ [][Next]_vars

(* ---- the game loop on a drawn room ---- *)

\* positions as join leaves them (integers inside [200, W-200))
LoopPoints ==
    { <<200, 200>>, <<207, 200>>, <<193, 200>>, <<200, 1100>> }

\* masses that START_MASS and eaten pellets produce
LoopMasses ==
    { START_MASS, START_MASS + PELLET_VALUE }

\* pellet positions (integers inside [40, W-40))
LoopPelletPoints ==
    { <<183, 200>>, <<217, 200>> }

LoopPlayers ==
    { [id |-> 0, x |-> pt[1], y |-> pt[2], vx |-> 0, vy |-> 0, mass |-> m * MassUnit] :
        pt \in LoopPoints, m \in LoopMasses }

\* one room of up to NumSockets joined connections, the k-th entry of the Map
\* being connection k, none of which has sent an input
LoopInit ==
    /\ \E n \in 0..Min(NumSockets, ROOM_CAP) :
         \E ps \in [1..n -> LoopPlayers], field \in [1..PELLET_COUNT -> LoopPelletPoints] :
            /\ rooms = << [players |-> [k \in 1..n |-> [ps[k] EXCEPT !.id = k]],
                           pellets |-> field] >>
            /\ room = [s \in Sockets |-> IF s <= n THEN 1 ELSE 0]
    /\ conn = [s \in Sockets |-> "open"]
    /\ rejoins = 0
    /\ ticks = 0
    /\ sent = <<>>
    /\ trace = NoTrace
    /\ inputBy = 0
    /\ now = 0

LoopSpec == LoopInit /\ [][Tick]_vars

(* ---- the integrate step on a player that has sent an input ---- *)

\* positions as join leaves them: the corners and the middle of [200, W-200)
MovePoints ==
    { <<200, 200>>, <<W - 201, H - 201>>, <<W \div 2, H \div 2>> }

\* the components a client may send: small and large numbers of either sign
MoveComponents ==
    { -1000, -1, 0, 1, 1000 }

\* one room holding connection 1 as the join handler and then the input handler
\* leave it
MoveInit ==
    /\ \E pt \in MovePoints, cx \in MoveComponents, cy \in MoveComponents,
          field \in PelletFields :
         rooms = << [players |-> << ApplyInput(NewPlayer(1, pt),
                                       [vx |-> [num |-> TRUE, v |-> cx],
                                        vy |-> [num |-> TRUE, v |-> cy]]) >>,
                     pellets |-> field] >>
    /\ conn = [s \in Sockets |-> "open"]
    /\ room = [s \in Sockets |-> IF s = 1 THEN 1 ELSE 0]
    /\ rejoins = 0
    /\ ticks = 0
    /\ sent = <<>>
    /\ trace = NoTrace
    /\ inputBy = 1
    /\ now = 0

MoveSpec == MoveInit /\ [][Tick]_vars

(* ---- the registry under joins into rooms that other connections fill ---- *)

\* ids of connections that joined earlier and send nothing more
PassiveIds == (NumSockets + 1)..(NumSockets + ROOM_CAP)

\* room-1 as up to ROOM_CAP earlier joins left it
JoinInit ==
    /\ \E k \in 0..ROOM_CAP, pt \in SpawnPoints, field \in PelletFields :
         rooms = << [players |-> [i \in 1..k |-> NewPlayer(NumSockets + i, pt)],
                     pellets |-> field] >>
    /\ conn = [s \in Sockets |-> "none"]
    /\ room = [s \in Sockets |-> 0]
    /\ rejoins = 0
    /\ ticks = 0
    /\ sent = <<>>
    /\ trace = NoTrace
    /\ inputBy = 0
    /\ now = 0

JoinNext ==
    \/ \E s \in Sockets : Connect(s)
    \/ \E s \in Sockets : Join(s)
    \/ \E s \in Sockets : Disconnect(s)
    \/ Tick

JoinSpec == JoinInit /\ [][JoinNext]_vars

(* ---- the final iteration of the server ---- *)
(***************************************************************************)
(* src/server.js holds two earlier iterations of the server.  The iteration *)
(* with room modes, the battle-royale match state machine, the safe zone    *)
(* and the AFK monitor is not among the sources; this part is written from  *)
(* the specification (sections 2, 3, 4.1 - 4.5, 6) and reuses the operators *)
(* above where the specification describes the same computation.  The clock *)
(* moves with the passes of the scheduler, by one of TickGaps (a long gap   *)
(* is a stalled scheduler); a handler reads the time of the last pass.      *)
(* Leaderboard and snapshot only emit messages and are left to Snapshots    *)
(* above.                                                                   *)
(***************************************************************************)

\* section 4.5: the AFK thresholds
AFK_WARN_MS == 15000
AFK_KICK_MS == 18000

\* configuration that section 6 names without values; the values are the model's
BR_REQUIRED == 2
BR_MATCH_MS == 4000
BR_SHRINK_DELAY_MS == 1000
ZONE_FLOOR == 300
BR_SPAWN_RADIUS == 1000

\* passes of the scheduler explored
MaxModeTicks == 4
\* connections that take part
MaxModeSessions == 2

ModeSockets == 1..MaxModeSessions

\* the inputs sent: a client that holds still, { vx: 0, vy: <not a number> }
ModeInputs ==
    { [vx |-> [num |-> TRUE, v |-> 0], vy |-> [num |-> FALSE, v |-> 0]] }

\* the time between two passes of the scheduler, in ms
TickGaps ==
    { 1000, 2000, 15000 }

Modes ==
    { "casual", "battle-royale" }

\* half the smaller world dimension
ZONE_FULL == Min(W, H) \div 2

\* PlayerSession
ModePlayer(s, pt, mode, t) ==
    NewPlayer(s, pt) @@ [mode |-> mode, alive |-> TRUE, lastInputAt |-> t]

\* Room
ModeRoom(mode, field) ==
    [mode |-> mode, state |-> IF mode = "casual" THEN "active" ELSE "waiting",
     players |-> <<>>, pellets |-> field, radius |-> ZONE_FULL,
     startAt |-> 0, shrinkAt |-> 0, endAt |-> 0, starts |-> 0]

\* assign with a room of its own for every casual join
assignFresh(rs, mode) ==
    IF mode = "casual" THEN Len(rs) + 1
    ELSE IF \E n \in 1..Len(rs) : rs[n].mode = mode /\ rs[n].state = "waiting"
         THEN CHOOSE n \in 1..Len(rs) :
                /\ rs[n].mode = mode /\ rs[n].state = "waiting"
                /\ \A k \in 1..(n - 1) : ~(rs[k].mode = mode /\ rs[k].state = "waiting")
         ELSE Len(rs) + 1

\* RoomRegistry.assign(mode): the index of the room returned, Len(rs) + 1 for a new one
assign(rs, mode) ==
    LET fits(n) == IF mode = "casual" THEN rs[n].mode = "casual"
                   ELSE rs[n].mode = mode /\ rs[n].state = "waiting"
    IN  IF \E n \in 1..Len(rs) : fits(n)
        THEN CHOOSE n \in 1..Len(rs) : fits(n) /\ \A k \in 1..(n - 1) : ~fits(k)
        ELSE Len(rs) + 1

\* the room that holds session s, 0 for none
RoomOf(rs, s) ==
    IF \E n \in 1..Len(rs) : MapHas(rs[n].players, s)
    THEN CHOOSE n \in 1..Len(rs) : MapHas(rs[n].players, s)
    ELSE 0

ModeInit ==
    /\ rooms = <<>>
    /\ conn = [s \in Sockets |-> "open"]
    /\ room = [s \in Sockets |-> 0]
    /\ rejoins = 0
    /\ ticks = 0
    /\ sent = <<>>
    /\ trace = NoTrace
    /\ inputBy = 0
    /\ now = 0

\* join { name, mode }: attaches a new session to the assigned room. The ids are
\* opaque, so the k-th connection to join for the first time has id k
ModeJoin(s) ==
    /\ conn[s] = "open"
    /\ RoomOf(rooms, s) = 0
    /\ \A u \in 1..(s - 1) : room[u] # 0 \/ conn[u] = "closed"
    /\ \E mode \in Modes, pt \in SpawnPoints :
       \E field \in IF assign(rooms, mode) <= Len(rooms) THEN {<<>>} ELSE PelletFields :
        LET n  == assign(rooms, mode)
            rs == IF n <= Len(rooms) THEN rooms ELSE Append(rooms, ModeRoom(mode, field))
        IN  /\ rooms' = [rs EXCEPT ![n].players = Append(@, ModePlayer(s, pt, mode, now))]
            /\ room' = [room EXCEPT ![s] = n]
    /\ sent' = <<>>
    /\ trace' = NoTrace
    /\ inputBy' = 0
    /\ UNCHANGED <<conn, rejoins, ticks, now>>

\* input { vx, vy }: velocity intent and last-input timestamp; ignored without a room
ModeInput(s) ==
    /\ conn[s] = "open"
    /\ \E inp \in ModeInputs :
        LET n == RoomOf(rooms, s)
        IN  rooms' =
              IF n = 0 THEN rooms
              ELSE [rooms EXCEPT ![n].players =
                      MapSet(@, s, [ApplyInput(MapGet(@, s), inp) EXCEPT !.lastInputAt = now])]
    /\ sent' = <<>>
    /\ trace' = NoTrace
    /\ inputBy' = s
    /\ UNCHANGED <<conn, room, rejoins, ticks, now>>

\* disconnect(): removes the session from its room
ModeDisconnect(s) ==
    /\ conn[s] = "open"
    /\ conn' = [conn EXCEPT ![s] = "closed"]
    /\ rooms' = [n \in 1..Len(rooms) |-> [rooms[n] EXCEPT !.players = MapDelete(@, s)]]
    /\ sent' = <<>>
    /\ trace' = NoTrace
    /\ inputBy' = 0
    /\ UNCHANGED <<room, rejoins, ticks, now>>

(* ---- the final iteration: one pass of the scheduler over a room ---- *)

\* the k-th of BR_REQUIRED evenly spaced points on the circle around the world
\* centre (for BR_REQUIRED = 2 the two ends of its horizontal diameter)
CirclePoint(k) ==
    IF k % BR_REQUIRED = 1 THEN << W \div 2 + BR_SPAWN_RADIUS, H \div 2 >>
    ELSE << W \div 2 - BR_SPAWN_RADIUS, H \div 2 >>

\* mass and alive flag back to their starting values
Revive(p) == [p EXCEPT !.mass = START_MASS * MassUnit, !.alive = TRUE]

AliveCount(players) == Cardinality({ k \in 1..Len(players) : players[k].alive })

\* ShouldStart with the threshold itself left out (count > required)
ShouldStartAbove(rm) == rm.state = "waiting" /\ Len(rm.players) > BR_REQUIRED

\* waiting -> active is due: the player count has reached the required threshold
ShouldStart(rm) == rm.state = "waiting" /\ Len(rm.players) >= BR_REQUIRED

\* waiting -> active at time t
StartMatch(rm, t) ==
    LET ps == rm.players
    IN  [rm EXCEPT !.state = "active",
                   !.players = [k \in 1..Len(ps) |->
                                  [Revive(ps[k]) EXCEPT !.x = CirclePoint(k)[1],
                                                        !.y = CirclePoint(k)[2]]],
                   !.startAt = t,
                   !.endAt = t + BR_MATCH_MS,
                   !.shrinkAt = t + BR_SHRINK_DELAY_MS,
                   !.radius = ZONE_FULL,
                   !.starts = @ + 1]

\* ZoneRadius with neither the elapsed fraction nor the radius clamped
ZoneRadiusUnclamped(rm, t) ==
    IF t <= rm.shrinkAt THEN ZONE_FULL
    ELSE ZONE_FULL - ((ZONE_FULL - ZONE_FLOOR) * (t - rm.shrinkAt))
                        \div (rm.endAt - rm.shrinkAt)

\* the safe-zone radius at time t: full until shrink-start, then interpolated
\* linearly toward the floor by the elapsed fraction of [shrinkAt, endAt]
ZoneRadius(rm, t) ==
    IF t <= rm.shrinkAt THEN ZONE_FULL
    ELSE LET elapsed == Min(t - rm.shrinkAt, rm.endAt - rm.shrinkAt)
         IN  Max(ZONE_FLOOR,
                 ZONE_FULL - ((ZONE_FULL - ZONE_FLOOR) * elapsed)
                                \div (rm.endAt - rm.shrinkAt))

\* the distance from the world centre exceeds the radius
OutsideZone(p, radius) == Dist2(p.x, p.y, W \div 2, H \div 2) > radius * radius

\* the zone update of an active room: the new radius, and every alive player
\* outside it marked not-alive
ZoneStep(rm, t) ==
    LET radius == ZoneRadius(rm, t)
    IN  [rm EXCEPT !.radius = radius,
                   !.players = [k \in 1..Len(rm.players) |->
                                  IF rm.players[k].alive /\ OutsideZone(rm.players[k], radius)
                                  THEN [rm.players[k] EXCEPT !.alive = FALSE]
                                  ELSE rm.players[k]]]

\* active -> waiting: the radius back to full, every player revived where it stands
EndMatch(rm) ==
    [rm EXCEPT !.state = "waiting",
               !.radius = ZONE_FULL,
               !.players = [k \in 1..Len(rm.players) |-> Revive(rm.players[k])]]

\* MatchStateMachine state update at time t: [room, started, ended, radius, zoneSeen,
\* zoneLeft], the last three being the zone step's radius, input and output
MatchStateMachine(rm, t) ==
    LET idle == [room |-> rm, started |-> FALSE, ended |-> FALSE, radius |-> rm.radius,
                 zoneSeen |-> <<>>, zoneLeft |-> <<>>]
    IN  IF rm.mode # "battle-royale" THEN idle
        ELSE IF rm.state = "waiting"
        THEN IF ShouldStart(rm)
             THEN [idle EXCEPT !.room = StartMatch(rm, t), !.started = TRUE]
             ELSE idle
        ELSE LET z == ZoneStep(rm, t)
                 over == AliveCount(z.players) <= 1 \/ t >= rm.endAt
             IN  [room |-> IF over THEN EndMatch(z) ELSE z,
                  started |-> FALSE, ended |-> over, radius |-> z.radius,
                  zoneSeen |-> rm.players, zoneLeft |-> z.players]

\* PhysicsIntegrator: dead players are skipped
ModeIntegrateAll(players) ==
    [k \in 1..Len(players) |-> IF players[k].alive THEN Integrate(players[k]) ELSE players[k]]

\* pellet consumption by the alive players from the k-th on
RECURSIVE ModePelletPass(_, _, _)
ModePelletPass(players, pellets, k) ==
    IF k > Len(players) THEN [players |-> players, pellets |-> pellets]
    ELSE IF ~players[k].alive THEN ModePelletPass(players, pellets, k + 1)
    ELSE LET e == EatFrom(players[k], r(players[k].mass), pellets, Len(pellets))
         IN  ModePelletPass([players EXCEPT ![k] = e.p], e.pellets, k + 1)

\* an absorption: casual removes the session and notifies it, battle-royale marks
\* it not-alive and keeps it
Eliminate(st, mode, big, small) ==
    LET grown == MapSet(st.players, big.id, [big EXCEPT !.mass = @ + AbsorbedShare(small.mass)])
    IN  IF mode = "casual"
        THEN [players |-> MapDelete(grown, small.id),
              sent |-> Append(st.sent, [type |-> "kicked", to |-> small.id,
                                        reason |-> "absorbed"])]
        ELSE [players |-> MapSet(grown, small.id, [small EXCEPT !.alive = FALSE]),
              sent |-> st.sent]

\* PvP absorption over the unordered pairs (ids[i], ids[j]) of alive players, from
\* pair (i, j) on. st = [players, sent]
RECURSIVE ModePairs(_, _, _, _, _)
ModePairs(st, mode, ids, i, j) ==
    IF i > Len(ids) THEN st
    ELSE IF j > Len(ids) THEN ModePairs(st, mode, ids, i + 1, i + 2)
    ELSE
      LET live(k) == MapHas(st.players, ids[k]) /\ MapGet(st.players, ids[k]).alive
      IN  IF ~(live(i) /\ live(j)) THEN ModePairs(st, mode, ids, i, j + 1)
          ELSE LET A == MapGet(st.players, ids[i])
                   B == MapGet(st.players, ids[j])
                   big == IF A.mass > B.mass THEN A ELSE B
                   small == IF A.mass > B.mass THEN B ELSE A
               IN  IF ~SameMass(A, B) /\ AbsorbHit(big, small)
                   THEN ModePairs(Eliminate(st, mode, big, small), mode, ids, i, j + 1)
                   ELSE ModePairs(st, mode, ids, i, j + 1)

ModePvP(players, mode) ==
    ModePairs([players |-> players, sent |-> <<>>], mode, MapKeys(players), 1, 2)

\* AfkWarnDue with the lower threshold excluded (idle > 15 s)
AfkWarnDueAfter(idle) == AFK_WARN_MS < idle /\ idle < AFK_KICK_MS

\* 15 s <= idle < 18 s
AfkWarnDue(idle) == AFK_WARN_MS <= idle /\ idle < AFK_KICK_MS

\* idle >= 18 s
AfkEvictDue(idle) == idle >= AFK_KICK_MS

\* remaining seconds until eviction, rounded up
SecondsRemaining(idle) == (AFK_KICK_MS - idle + 999) \div 1000

\* AFKMonitor at time t over the players from the k-th on: [players, sent]
RECURSIVE AFKMonitor(_, _, _)
AFKMonitor(players, t, k) ==
    IF k > Len(players) THEN [players |-> <<>>, sent |-> <<>>]
    ELSE LET rest == AFKMonitor(players, t, k + 1)
             p == players[k]
             idle == t - p.lastInputAt
             kept == [rest EXCEPT !.players = <<p>> \o @]
         IN  IF ~p.alive THEN kept
             ELSE IF AfkEvictDue(idle)
             THEN [rest EXCEPT !.sent = << [type |-> "kicked", to |-> p.id,
                                            reason |-> "afk"] >> \o @]
             ELSE IF AfkWarnDue(idle)
             THEN [kept EXCEPT !.sent = << [type |-> "afk_warn", to |-> p.id,
                                            secondsRemaining |-> SecondsRemaining(idle)] >> \o @]
             ELSE kept

\* one room's pass at time t, up to the replenishment draws: MatchStateMachine,
\* PhysicsIntegrator, CollisionResolver (pellets, PvP), AFKMonitor
ModeRoomPass(rm, t) ==
    LET msm   == MatchStateMachine(rm, t)
        moved == ModeIntegrateAll(msm.room.players)
        fed   == ModePelletPass(moved, rm.pellets, 1)
        pvp   == ModePvP(fed.players, rm.mode)
        afk   == AFKMonitor(pvp.players, t, 1)
    IN  [room |-> [msm.room EXCEPT !.players = afk.players, !.pellets = fed.pellets],
         sent |-> pvp.sent \o afk.sent,
         trace |-> [mode |-> rm.mode, was |-> rm.state, count |-> Len(rm.players),
                    started |-> msm.started, ended |-> msm.ended, radius |-> msm.radius,
                    zoneSeen |-> msm.zoneSeen, zoneLeft |-> msm.zoneLeft,
                    afkSeen |-> pvp.players]]

\* the messages of rooms 1..n, in the order the pass emits them
RECURSIVE ModeSentUpTo(_, _)
ModeSentUpTo(body, n) ==
    IF n = 0 THEN <<>> ELSE ModeSentUpTo(body, n - 1) \o body[n].sent

\* one pass of the fixed-rate scheduler over all rooms, dt ms after the last one
ModeTick ==
    /\ ticks < MaxModeTicks
    /\ ticks' = ticks + 1
    /\ \E dt \in TickGaps :
        /\ now' = now + dt
        /\ LET body == [n \in 1..Len(rooms) |-> ModeRoomPass(rooms[n], now + dt)]
           IN  \E refill \in [1..Len(rooms) -> UNION {Refills(k) : k \in 0..PELLET_COUNT}] :
                /\ \A n \in 1..Len(rooms) : refill[n] \in Refills(Len(body[n].room.pellets))
                /\ rooms' = [n \in 1..Len(rooms) |->
                               [body[n].room EXCEPT !.pellets = Replenish(@, refill[n])]]
                /\ sent' = ModeSentUpTo(body, Len(rooms))
                /\ trace' = [n \in 1..Len(rooms) |-> body[n].trace]
    /\ inputBy' = 0
    /\ UNCHANGED <<conn, room, rejoins>>

ModeNext ==
    \/ \E s \in ModeSockets : ModeJoin(s)
    \/ \E s \in ModeSockets : ModeInput(s)
    \/ \E s \in ModeSockets : ModeDisconnect(s)
    \/ ModeTick

ModeSpec == ModeInit /\ [][ModeNext]_vars

(* ---- properties ---- *)

\* a loop pass has just run
Ticked == trace # NoTrace

InRoom(s, n) == MapHas(rooms[n].players, s)
InSomeRoom(s) == \E n \in 1..Len(rooms) : InRoom(s, n)
Ids(players) == { players[k].id : k \in 1..Len(players) }

\* how many state messages the last pass addressed to s
StateMsgsTo(s) ==
    Cardinality({ i \in 1..Len(sent) : sent[i].type = "state" /\ sent[i].to = s })

\* the masses an examined pair had, by role
BigBefore(e) == IF e.big = e.a THEN e.aMass ELSE e.bMass
SmallBefore(e) == IF e.small = e.a THEN e.aMass ELSE e.bMass

\* C1: in a PvP pass every absorption adds exactly 0.85 x the absorbed player's mass
\* (as it was just before) to the absorber's mass, and no player is absorbed twice in
\* the pass, by the same or by another absorber
C1_AbsorbedOncePerPass ==
    Ticked =>
      \A n \in 1..Len(trace) :
        LET ev == trace[n].pvp
        IN  /\ \A i \in 1..Len(ev) :
                 ev[i].hit => 20 * (ev[i].bigMass - BigBefore(ev[i])) = 17 * SmallBefore(ev[i])
            /\ \A i, j \in 1..Len(ev) :
                 (i < j /\ ev[i].hit /\ ev[j].hit) => ev[i].small # ev[j].small

\* C2: every room's pellet array holds exactly PELLET_COUNT pellets, after every pass
\* and after every join, input and disconnect
C2_PelletCountRestored ==
    \A n \in 1..Len(rooms) : Len(rooms[n].pellets) = PELLET_COUNT

\* a pass has just eaten pellets in a room and the room is back at PELLET_COUNT
C2_Witness ==
    /\ Ticked
    /\ \E n \in 1..Len(trace) :
         trace[n].left < PELLET_COUNT /\ Len(rooms[n].pellets) = PELLET_COUNT

\* the spec's scenario for equal masses: 150 and 150, fully overlapping
Scenario150 ==
    << [id |-> 1, x |-> 200, y |-> 200, vx |-> 0, vy |-> 0, mass |-> 150 * MassUnit],
       [id |-> 2, x |-> 200, y |-> 200, vx |-> 0, vy |-> 0, mass |-> 150 * MassUnit] >>

\* C3: a pair examined with equal masses is left alone (nobody removed, no mass
\* changed), at any distance; two equal-mass players alone in a room both remain
C3_EqualMassNeverResolves ==
    /\ PvP(Scenario150).players = Scenario150
    /\ Ticked =>
         \A n \in 1..Len(trace) :
           /\ \A i \in 1..Len(trace[n].pvp) :
                LET e == trace[n].pvp[i]
                IN  e.aMass = e.bMass => (~e.hit /\ e.after = e.before)
           /\ (Len(trace[n].fed) = 2 /\ trace[n].fed[1].mass = trace[n].fed[2].mass)
                => trace[n].after = trace[n].fed

\* a pass has examined two fully overlapping players of equal mass, both still there
C3_Witness ==
    /\ Ticked
    /\ \E n \in 1..Len(trace) : \E i \in 1..Len(trace[n].pvp) :
         LET e == trace[n].pvp[i]
         IN  /\ e.aMass = e.bMass /\ e.dist2 = 0 /\ e.aIn
             /\ InRoom(e.a, n) /\ InRoom(e.b, n)

\* distance < sqrt(larger) - 0.35 * sqrt(smaller), from the squared distance
CloserThanReach(larger, smaller, d2) ==
    LET reach == 100 * r(larger) - 35 * r(smaller)
    IN  reach > 0 /\ LessThanSquare(d2, reach, 100 * MassUnit)

\* the spec's scenario: masses 100 and 300 at centre distance 5, in either Map order
Scenario100 == [id |-> 1, x |-> 200, y |-> 200, vx |-> 0, vy |-> 0, mass |-> 100 * MassUnit]
Scenario300 == [id |-> 2, x |-> 205, y |-> 200, vx |-> 0, vy |-> 0, mass |-> 300 * MassUnit]

\* C4: an examined pair of unequal masses ends in an absorption exactly when the
\* distance is below sqrt(larger) - 0.35 * sqrt(smaller); the heavier is the absorber,
\* the lighter is removed; 300 and 100 at distance 5 leave the heavier alone with 385
C4_AbsorbIffWithinReach ==
    /\ PvP(<<Scenario100, Scenario300>>).players
         = << [Scenario300 EXCEPT !.mass = 385 * MassUnit] >>
    /\ PvP(<<Scenario300, Scenario100>>).players
         = << [Scenario300 EXCEPT !.mass = 385 * MassUnit] >>
    /\ Ticked =>
         \A n \in 1..Len(trace) : \A i \in 1..Len(trace[n].pvp) :
           LET e == trace[n].pvp[i]
               larger == Max(e.aMass, e.bMass)
               smaller == Min(e.aMass, e.bMass)
           IN  e.aMass # e.bMass =>
                 /\ e.hit <=> CloserThanReach(larger, smaller, e.dist2)
                 /\ e.hit =>
                      /\ {e.big, e.small} = {e.a, e.b}
                      /\ BigBefore(e) = larger /\ SmallBefore(e) = smaller
                      /\ ~MapHas(e.after, e.small)
                      /\ MapHas(e.before, e.big) =>
                           /\ MapHas(e.after, e.big)
                           /\ 20 * (MapGet(e.after, e.big).mass - larger) = 17 * smaller

\* one pass has examined an unequal pair that was absorbed and one that was not
C4_Witness ==
    /\ Ticked
    /\ \E n \in 1..Len(trace) : \E i, j \in 1..Len(trace[n].pvp) :
         LET e == trace[n].pvp[i]
             f == trace[n].pvp[j]
         IN  /\ e.aMass # e.bMass /\ e.hit /\ e.aIn
             /\ f.aMass # f.bMass /\ ~f.hit

\* C5: the PvP pass never adds a player: no more entries, and no other ids, after it
\* than before it
C5_PvPNeverAddsPlayers ==
    Ticked =>
      \A n \in 1..Len(trace) :
        /\ Len(trace[n].after) <= Len(trace[n].fed)
        /\ Ids(trace[n].after) \subseteq Ids(trace[n].fed)
        /\ rooms[n].players = trace[n].after

\* a pass whose PvP step has removed a player from a room
C5_Witness ==
    /\ Ticked
    /\ \E n \in 1..Len(trace) :
         Len(trace[n].pvp) > 0 /\ Len(trace[n].after) < Len(trace[n].fed)

\* C6: the players listed in recipient A's snapshot are exactly the entries B of A's
\* room with B # A and squared distance(A, B) <= AOI_RADIUS^2, each listed once
C6_NearbyIffWithinAOI ==
    \A i \in 1..Len(sent) :
      sent[i].type = "state" =>
        LET players == rooms[sent[i].room].players
            A == MapGet(players, sent[i].to)
            listed == sent[i].players
        IN  /\ { listed[k].id : k \in 1..Len(listed) }
                 = { players[k].id : k \in { k \in 1..Len(players) :
                       /\ players[k].id # sent[i].to
                       /\ (players[k].x - A.x) * (players[k].x - A.x)
                            + (players[k].y - A.y) * (players[k].y - A.y)
                              <= AOI_RADIUS * AOI_RADIUS } }
            /\ Cardinality({ listed[k].id : k \in 1..Len(listed) }) = Len(listed)

\* one pass has listed a player exactly AOI_RADIUS away and left out one farther away
C6_Witness ==
    /\ \E i \in 1..Len(sent) :
         /\ sent[i].type = "state"
         /\ \E k \in 1..Len(sent[i].players) :
              Dist2(sent[i].you.x, sent[i].you.y, sent[i].players[k].x, sent[i].players[k].y)
                = AOI_RADIUS * AOI_RADIUS
    /\ \E i \in 1..Len(sent) :
         /\ sent[i].type = "state"
         /\ Len(sent[i].players) < Len(rooms[sent[i].room].players) - 1

\* C7: a pass sends every session that is in a room exactly one state message, and
\* a session that is in no room none
C7_OneStatePerSession ==
    Ticked =>
      \A s \in Sockets : StateMsgsTo(s) = IF InSomeRoom(s) THEN 1 ELSE 0

\* C8: once a connection has disconnected its session id is in no room's player map
C8_DisconnectedInNoRoom ==
    \A s \in Sockets : conn[s] = "closed" => ~InSomeRoom(s)

\* C9: an input from a connection that has no session in any room changes no room
\* (no player record, no pellet array) and sends nothing
C9_InputWithoutSessionIgnored ==
    [][ \A s \in Sockets :
          (inputBy' = s /\ ~InSomeRoom(s)) => (rooms' = rooms /\ sent' = <<>>) ]_vars

\* the input handler has just run for a joined connection whose session was removed
\* from its room by an absorption
C9_Witness ==
    \E s \in Sockets :
      /\ inputBy = s /\ conn[s] = "open"
      /\ room[s] # 0 /\ ~InSomeRoom(s)

\* C10: a recorded mass is positive, is START_MASS when the session id enters a
\* room, and never decreases while the session id stays in that room
C10_MassOnlyGrows ==
    [][ \A n \in 1..Len(rooms') : \A s \in Sockets :
          MapHas(rooms'[n].players, s) =>
            LET after == MapGet(rooms'[n].players, s).mass
                was == n <= Len(rooms) /\ MapHas(rooms[n].players, s)
            IN  /\ after > 0
                /\ ~was => after = START_MASS * MassUnit
                /\ was => after >= MapGet(rooms[n].players, s).mass ]_vars

\* C16: the PvP pass resolves a pair only while both of its players are entries of
\* the room: a player removed earlier in the pass neither absorbs nor is absorbed
C16_OnlyPresentPairsResolve ==
    Ticked =>
      \A n \in 1..Len(trace) : \A i \in 1..Len(trace[n].pvp) :
        LET e == trace[n].pvp[i]
        IN  e.hit => (MapHas(e.before, e.a) /\ MapHas(e.before, e.b))

\* the mass the pellet pass gave to the players of a room, player k onwards
RECURSIVE PelletGain(_, _)
PelletGain(tr, k) ==
    IF k > Len(tr.fed) THEN 0
    ELSE (tr.fed[k].mass - tr.start[k].mass) + PelletGain(tr, k + 1)

\* C17: the mass that the players of a room gain in a pellet pass is PELLET_VALUE
\* times the number of pellets the pass removed (each removed pellet fed one player)
C17_PelletFeedsOnePlayer ==
    [][ trace' # NoTrace =>
          \A n \in 1..Len(rooms) :
            /\ Len(trace'[n].fed) = Len(trace'[n].start)
            /\ \A k \in 1..Len(trace'[n].fed) :
                 (trace'[n].fed[k].mass - trace'[n].start[k].mass)
                    % (PELLET_VALUE * MassUnit) = 0
            /\ PelletGain(trace'[n], 1)
                 = PELLET_VALUE * MassUnit * (Len(rooms[n].pellets) - trace'[n].left) ]_vars

\* a pass in which a player ate a pellet and a later player of the same mass at the
\* same place, who would have reached it too, found it gone
C17_Witness ==
    /\ Ticked
    /\ \E n \in 1..Len(trace) : \E i, j \in 1..Len(trace[n].fed) :
         /\ i < j
         /\ trace[n].start[i].mass = trace[n].start[j].mass
         /\ trace[n].fed[i].x = trace[n].fed[j].x /\ trace[n].fed[i].y = trace[n].fed[j].y
         /\ trace[n].fed[i].mass > trace[n].start[i].mass
         /\ trace[n].fed[j].mass = trace[n].start[j].mass

\* C18: every player of every room is inside the world rectangle minus the margin
C18_InsideWorld ==
    \A n \in 1..Len(rooms) : \A k \in 1..Len(rooms[n].players) :
      /\ 10 <= rooms[n].players[k].x /\ rooms[n].players[k].x <= W - 10
      /\ 10 <= rooms[n].players[k].y /\ rooms[n].players[k].y <= H - 10

\* a pass has stopped a player at the lower margin in x and at the upper one in y
\* while its velocity still points outwards
C18_Witness ==
    /\ Ticked
    /\ \E k \in 1..Len(rooms[1].players) :
         LET p == rooms[1].players[k]
         IN  p.x = 10 /\ p.vx < 0 /\ p.y = H - 10 /\ p.vy > 0

\* C19: a session id is an entry of at most one room's player map
C19_OneRoomPerSession ==
    \A s \in Sockets : Cardinality({ n \in 1..Len(rooms) : InRoom(s, n) }) <= 1

\* no room above ROOM_CAP
WithinCap == \A n \in 1..Len(rooms) : Len(rooms[n].players) <= ROOM_CAP

\* every room of the registry is at ROOM_CAP or above
AllFull == \A k \in 1..Len(rooms) : Len(rooms[k].players) >= ROOM_CAP

\* C20: no room ever holds more than ROOM_CAP players; a session id that enters a
\* room enters the first room below ROOM_CAP; a room is added only when every room
\* is full, one at a time at the next free index (its id); no room is ever removed
C20_RoomsFillInOrder ==
    /\ [] WithinCap
    /\ [][ /\ Len(rooms') >= Len(rooms)
           /\ Len(rooms') > Len(rooms) => (AllFull /\ Len(rooms') = Len(rooms) + 1)
           /\ \A s \in Sockets : \A n \in 1..Len(rooms') :
                (MapHas(rooms'[n].players, s)
                   /\ ~(n <= Len(rooms) /\ MapHas(rooms[n].players, s)))
                => IF n <= Len(rooms)
                   THEN /\ Len(rooms[n].players) < ROOM_CAP
                        /\ \A k \in 1..(n - 1) : Len(rooms[k].players) >= ROOM_CAP
                   ELSE AllFull ]_vars

\* a join has just opened room-2 because room-1 was full, and room-1 is still full
C20_Witness ==
    /\ Len(rooms) = 2
    /\ Len(rooms[1].players) = ROOM_CAP
    /\ Len(rooms[2].players) = 1
    /\ \E s \in Sockets : room[s] = 2 /\ InRoom(s, 2)

(* ---- properties of the final iteration ---- *)

CasualRooms == { n \in 1..Len(rooms) : rooms[n].mode = "casual" }

BattleRooms == { n \in 1..Len(rooms) : rooms[n].mode = "battle-royale" }

C13_ZoneShrinksAndEliminates ==
    /\ [] (\A n \in BattleRooms : rooms[n].radius >= ZONE_FLOOR)
    /\ [] (Ticked => \A n \in 1..Len(trace) :
             /\ trace[n].radius >= ZONE_FLOOR
             /\ \A k \in 1..Len(trace[n].zoneSeen) :
                  LET p == trace[n].zoneSeen[k]
                      far == (p.x - W \div 2) * (p.x - W \div 2)
                               + (p.y - H \div 2) * (p.y - H \div 2)
                                 > trace[n].radius * trace[n].radius
                  IN  (p.alive /\ far) => ~trace[n].zoneLeft[k].alive)
    /\ [][ \A n \in BattleRooms :
             (trace' # NoTrace /\ rooms[n].state = "active")
               => trace'[n].radius <= rooms[n].radius ]_vars

\* a pass has shrunk the zone of a running match, to a radius between the floor and
\* the full one, below the distance of an alive player and marked it not-alive
C13_Witness ==
    /\ Ticked
    /\ \E n \in 1..Len(trace) :
         /\ trace[n].was = "active"
         /\ ZONE_FLOOR < trace[n].radius /\ trace[n].radius < ZONE_FULL
         /\ \E k \in 1..Len(trace[n].zoneSeen) :
              trace[n].zoneSeen[k].alive /\ ~trace[n].zoneLeft[k].alive

\* the messages of a kind that the last pass addressed to s
ModeMsgsTo(s, type) ==
    { sent[i] : i \in { i \in 1..Len(sent) : sent[i].type = type /\ sent[i].to = s } }

\* C14: at the AFK step of a pass, an alive player idle for 15 s <= idle < 18 s is
\* sent afk_warn with the seconds left until 18 s (2 at 16000 ms) and stays; one idle
\* for 18 s or more is removed from its room and sent kicked with reason afk; one
\* idle for less than 15 s is neither warned nor evicted
C14_AfkWarnThenEvict ==
    Ticked =>
      \A n \in 1..Len(trace) : \A k \in 1..Len(trace[n].afkSeen) :
        LET p == trace[n].afkSeen[k]
            idle == now - p.lastInputAt
            warns == ModeMsgsTo(p.id, "afk_warn")
            kicks == { m \in ModeMsgsTo(p.id, "kicked") : m.reason = "afk" }
        IN  p.alive =>
              /\ (15000 <= idle /\ idle < 18000)
                   => (/\ Cardinality(warns) = 1
                       /\ \A m \in warns : m.secondsRemaining * 1000 = 18000 - idle
                       /\ idle = 16000 => \A m \in warns : m.secondsRemaining = 2
                       /\ kicks = {}
                       /\ MapHas(rooms[n].players, p.id))
              /\ idle >= 18000
                   => (Cardinality(kicks) = 1 /\ warns = {}
                         /\ ~MapHas(rooms[n].players, p.id))
              /\ idle < 15000
                   => (warns = {} /\ kicks = {} /\ MapHas(rooms[n].players, p.id))

\* one pass has warned a player idle for exactly 16000 ms and evicted another
C14_Witness ==
    /\ Ticked
    /\ \E n, m \in 1..Len(trace) :
         /\ \E k \in 1..Len(trace[n].afkSeen) :
              LET p == trace[n].afkSeen[k]
              IN  p.alive /\ now - p.lastInputAt = 16000 /\ MapHas(rooms[n].players, p.id)
         /\ \E k \in 1..Len(trace[m].afkSeen) :
              LET p == trace[m].afkSeen[k]
              IN  p.alive /\ now - p.lastInputAt >= 18000 /\ ~MapHas(rooms[m].players, p.id)
====
